---- MODULE Spec2Model ----
(***************************************************************************)
(* Model of the prediction service in src/main.py: the model load at       *)
(* process start, the two prediction endpoints (/predict and               *)
(* /predict_by_name), the forecast acquisition and feature assembly        *)
(* (fetch_forecast_data) and the flood classifier (get_flood_alert).       *)
(*                                                                         *)
(* Numbers.  Rainfall is an integer number of thousandths of a millimetre  *)
(* before rounding and of hundredths after round(x, 2).  Coordinates and   *)
(* forecast values are small integers; only their identity matters.        *)
(* An instant is a record of its year and its day of the year.             *)
(*                                                                         *)
(* Exceptions.  A Python call that may raise yields a record with an ok    *)
(* field; ok = FALSE stands for the raised exception (or for None where    *)
(* the code returns None).                                                 *)
(***************************************************************************)
EXTENDS Integers, Sequences, FiniteSets, TLC

VARIABLES phase, model, req, calls, resp

vars == <<phase, model, req, calls, resp>>

(***************************************************************************)
(* Bounds of the explored inputs.                                          *)
(***************************************************************************)
\* raw model outputs are taken within RoundWindow thousandths of every cut point
RoundWindow == 6
\* the collaborator's daily arrays hold 0..MaxRows elements
MaxRows == 1
\* first of the two years the wall clock is drawn from (2024 is a leap year)
FirstYear == 2023

(***************************************************************************)
(* Sentinels and input sets.                                               *)
(***************************************************************************)
NoModel == "None"
Loaded == "rainfall_model_v2.pkl"
NoPrincipal == "AnonymousUser"
Users == {"asha"}
Principals == Users \cup {NoPrincipal}
\* request coordinates; 95 and 190 lie outside [-90, 90] and [-180, 180]
Coordinates == {<<13, 80>>, <<95, 80>>, <<13, 190>>}
Names == {"Chennai", "Atlantis"}
LocTypes == {"city", "water", "", "null"}

(***************************************************************************)
(* datetime: the calendar fields of an instant.                            *)
(***************************************************************************)
IsLeap(y) == (y % 4 = 0 /\ y % 100 # 0) \/ y % 400 = 0

DaysInYear(y) == IF IsLeap(y) THEN 366 ELSE 365

MonthLengths(y) ==
    <<31, IF IsLeap(y) THEN 29 ELSE 28, 31, 30, 31, 30, 31, 31, 30, 31, 30, 31>>

RECURSIVE DaysBefore(_, _)
DaysBefore(y, m) == IF m = 1 THEN 0 ELSE DaysBefore(y, m - 1) + MonthLengths(y)[m - 1]

\* datetime.month
MonthOf(t) == CHOOSE m \in 1..12 :
                 /\ DaysBefore(t.year, m) < t.yday
                 /\ t.yday <= DaysBefore(t.year, m) + MonthLengths(t.year)[m]

\* datetime.timetuple().tm_yday
DayOfYear(t) == t.yday

\* datetime.year
YearOf(t) == t.year

\* t + timedelta(days=1)
PlusOneDay(t) ==
    IF t.yday = DaysInYear(t.year) THEN [year |-> t.year + 1, yday |-> 1]
    ELSE [year |-> t.year, yday |-> t.yday + 1]

(***************************************************************************)
(* The forecast collaborator (Open-Meteo).  It knows six daily variables   *)
(* for the point and answers with a "time" array and one array for every   *)
(* variable the request names.  An outcome f says how the call ends:       *)
(*   transport_error  requests.get raises                                  *)
(*   http_error       non-success status, raise_for_status raises          *)
(*   bad_json         response.json() raises                               *)
(*   no_daily         the JSON object has no "daily" key                   *)
(*   ragged           "daily" is not a mapping of equal-length arrays      *)
(*   daily            a "daily" mapping: f.drop names a key of the request *)
(*                    that is left out, f.order the key order, f.nrows the *)
(*                    length of every array                                *)
(***************************************************************************)
WeatherVariables ==
    <<"temperature_2m_max", "temperature_2m_min", "apparent_temperature_mean",
      "sunshine_duration", "precipitation_hours", "wind_speed_10m_max">>

WeatherBase ==
    [temperature_2m_max |-> 30, temperature_2m_min |-> 20,
     apparent_temperature_mean |-> 25, sunshine_duration |-> 40,
     precipitation_hours |-> 5, wind_speed_10m_max |-> 60, time |-> 0]

\* the value of variable k on forecast day i
WeatherValue(k, i) == WeatherBase[k] + i

SeqToSet(s) == {s[i] : i \in DOMAIN s}

Reverse(s) == [i \in 1..Len(s) |-> s[Len(s) + 1 - i]]

SelectSeqNot(s, x) == SelectSeq(s, LAMBDA k : k # x)

\* the daily variables the service asks for, main.py line 87
RequestedVariables ==
    {"temperature_2m_max", "temperature_2m_min", "apparent_temperature_mean",
     "sunshine_duration", "precipitation_hours"}

ForecastFailures == {"transport_error", "http_error", "bad_json", "no_daily", "ragged"}

ForecastOutcomes ==
    {[kind |-> k, drop |-> "none", order |-> "asc", nrows |-> 1] : k \in ForecastFailures}
    \cup {[kind |-> "daily", drop |-> d, order |-> o, nrows |-> n] :
            d \in {"none", "time"} \cup RequestedVariables,
            o \in {"asc", "desc"}, n \in 0..MaxRows}

\* the keys of the "daily" object, in the order they appear in the JSON
DailyKeys(params, f) ==
    LET asked == SelectSeqNot(<<"time">> \o params.daily, f.drop)
    IN  IF f.order = "asc" THEN asked ELSE Reverse(asked)

\* requests.get(API_URL, params=params) ... response.json()
open_meteo(params, f) ==
    IF f.kind = "daily"
    THEN [ok |-> TRUE, has_daily |-> TRUE, ragged |-> FALSE,
          keys |-> DailyKeys(params, f), nrows |-> f.nrows]
    ELSE [ok |-> f.kind \in {"no_daily", "ragged"}, has_daily |-> f.kind = "ragged",
          ragged |-> f.kind = "ragged", keys |-> <<>>, nrows |-> 0]

(***************************************************************************)
(* pandas: a DataFrame is its ordered column names and its rows, each row  *)
(* a function from column name to value.                                   *)
(***************************************************************************)
KeyError == [ok |-> FALSE, cols |-> <<>>, rows |-> <<>>]

\* pd.DataFrame(data['daily'])
DataFrame(r) ==
    IF ~r.has_daily \/ r.ragged THEN KeyError
    ELSE [ok |-> TRUE, cols |-> r.keys,
          rows |-> [i \in 1..r.nrows |-> [k \in SeqToSet(r.keys) |-> WeatherValue(k, i)]]]

\* df[col] = v
df_set(df, col, v) ==
    IF ~df.ok THEN df
    ELSE [ok |-> TRUE,
          cols |-> IF col \in SeqToSet(df.cols) THEN df.cols ELSE Append(df.cols, col),
          rows |-> [i \in DOMAIN df.rows |->
                      [k \in SeqToSet(df.cols) \cup {col} |->
                          IF k = col THEN v ELSE df.rows[i][k]]]]

\* df.drop(col, axis=1)
df_drop(df, col) ==
    IF ~df.ok \/ col \notin SeqToSet(df.cols) THEN KeyError
    ELSE [ok |-> TRUE, cols |-> SelectSeqNot(df.cols, col),
          rows |-> [i \in DOMAIN df.rows |->
                      [k \in SeqToSet(df.cols) \ {col} |-> df.rows[i][k]]]]

\* df[columns]
df_select(df, columns) ==
    IF ~df.ok \/ ~(SeqToSet(columns) \subseteq SeqToSet(df.cols)) THEN KeyError
    ELSE [ok |-> TRUE, cols |-> columns,
          rows |-> [i \in DOMAIN df.rows |-> [k \in SeqToSet(columns) |-> df.rows[i][k]]]]

(***************************************************************************)
(* fetch_forecast_data                                                     *)
(***************************************************************************)
\* params asking for a week of forecast
forecast_params_week(lat, lon) ==
    [latitude |-> lat, longitude |-> lon,
     daily |-> <<"temperature_2m_max", "temperature_2m_min", "apparent_temperature_mean",
                 "sunshine_duration", "precipitation_hours">>,
     forecast_days |-> 7, timezone |-> "auto"]

\* params, main.py line 87
forecast_params(lat, lon) ==
    [latitude |-> lat, longitude |-> lon,
     daily |-> <<"temperature_2m_max", "temperature_2m_min", "apparent_temperature_mean",
                 "sunshine_duration", "precipitation_hours">>,
     forecast_days |-> 1, timezone |-> "auto"]

model_columns ==
    <<"temperature_2m_max", "temperature_2m_min", "apparent_temperature_mean",
      "sunshine_duration", "precipitation_hours", "latitude", "longitude",
      "month", "day_of_year", "year">>

\* assemble_features with the year taken from today, not from tomorrow
assemble_features_year_today(r, lat, lon, clock) ==
    LET tomorrow_date == PlusOneDay(clock)
        df0 == DataFrame(r)
        df1 == df_set(df0, "latitude", lat)
        df2 == df_set(df1, "longitude", lon)
        df3 == df_set(df2, "month", MonthOf(tomorrow_date))
        df4 == df_set(df3, "day_of_year", DayOfYear(tomorrow_date))
        df5 == df_set(df4, "year", YearOf(clock))
        df6 == df_drop(df5, "time")
    IN  df_select(df6, model_columns)

\* the frame built from the response, lines 93-102; clock is datetime.now()
assemble_features(r, lat, lon, clock) ==
    LET tomorrow_date == PlusOneDay(clock)
        df0 == DataFrame(r)
        df1 == df_set(df0, "latitude", lat)
        df2 == df_set(df1, "longitude", lon)
        df3 == df_set(df2, "month", MonthOf(tomorrow_date))
        df4 == df_set(df3, "day_of_year", DayOfYear(tomorrow_date))
        df5 == df_set(df4, "year", YearOf(tomorrow_date))
        df6 == df_drop(df5, "time")
    IN  df_select(df6, model_columns)

\* returns the frame, or None (ok = FALSE) on any exception
fetch_forecast_data(lat, lon, f, clock) ==
    LET r == open_meteo(forecast_params(lat, lon), f)
    IN  IF ~r.ok THEN KeyError ELSE assemble_features(r, lat, lon, clock)

(***************************************************************************)
(* train_model.py: the columns of X, the frame the model is fitted on.     *)
(* The archive collaborator answers with "time" and the requested daily    *)
(* variables in the order they are requested.                              *)
(***************************************************************************)
training_daily ==
    <<"precipitation_sum", "temperature_2m_max", "temperature_2m_min",
      "apparent_temperature_mean", "sunshine_duration", "precipitation_hours">>

training_columns ==
    LET fetched == (<<"time">> \o training_daily) \o <<"latitude", "longitude">>
        engineered == fetched \o <<"month", "day_of_year", "year">>
    IN  SelectSeqNot(SelectSeqNot(engineered, "time"), "precipitation_sum")

(***************************************************************************)
(* get_flood_alert                                                         *)
(***************************************************************************)
\* round(x, 2): thousandths to hundredths, to nearest, ties to even
Round2(p) ==
    LET q == p \div 10
        rem == p % 10
    IN  IF rem < 5 THEN q
        ELSE IF rem > 5 THEN q + 1
        ELSE IF q % 2 = 0 THEN q ELSE q + 1

\* get_flood_alert with the second bucket's upper bound exclusive
get_flood_alert_exclusive(rainfall_mm) ==
    LET r == Round2(rainfall_mm)
    IN  IF r < 1560 THEN [risk_level |-> "Low", alert_message |-> [text |-> "No significant flood risk", mm |-> r]]
        ELSE IF r < 6440 THEN [risk_level |-> "Low", alert_message |-> [text |-> "Low flood risk", mm |-> r]]
        ELSE IF r <= 11550 THEN [risk_level |-> "Moderate", alert_message |-> [text |-> "Flood Alert", mm |-> r]]
        ELSE IF r <= 20440 THEN [risk_level |-> "High", alert_message |-> [text |-> "Flood Warning", mm |-> r]]
        ELSE [risk_level |-> "Severe", alert_message |-> [text |-> "DANGER", mm |-> r]]

\* rainfall_mm in thousandths; the message is its template and the embedded value
get_flood_alert(rainfall_mm) ==
    LET r == Round2(rainfall_mm)
    IN  IF r < 1560 THEN [risk_level |-> "Low", alert_message |-> [text |-> "No significant flood risk", mm |-> r]]
        ELSE IF r <= 6440 THEN [risk_level |-> "Low", alert_message |-> [text |-> "Low flood risk", mm |-> r]]
        ELSE IF r <= 11550 THEN [risk_level |-> "Moderate", alert_message |-> [text |-> "Flood Alert", mm |-> r]]
        ELSE IF r <= 20440 THEN [risk_level |-> "High", alert_message |-> [text |-> "Flood Warning", mm |-> r]]
        ELSE [risk_level |-> "Severe", alert_message |-> [text |-> "DANGER", mm |-> r]]

(***************************************************************************)
(* The other collaborators.  Every call a handler makes is logged with its *)
(* argument and its outcome, in call order.                                *)
(***************************************************************************)
Call(fn, arg, result) == [fn |-> fn, arg |-> arg, result |-> result]

\* the wall clock read by datetime.now(): 28 February, 30 or 31 December
ClockReadings ==
    {t \in {[year |-> y, yday |-> d] : y \in {FirstYear, FirstYear + 1}, d \in {59, 365, 366}} :
        t.yday <= DaysInYear(t.year)}

CutPoints == {0, 15600, 64400, 115500, 204400}

\* model.predict: it raises, or every element of its result is value
RawOutputs == UNION {(c - RoundWindow)..(c + RoundWindow) : c \in CutPoints}

PredictOutcomes ==
    {[raises |-> TRUE, value |-> 0]} \cup {[raises |-> FALSE, value |-> v] : v \in RawOutputs}

\* geolocator.reverse: it raises, returns None, or a location whose raw 'type' is
\* a string ("" when the key is absent) or null
ReverseOutcomes ==
    {[kind |-> "raise", type |-> ""], [kind |-> "none", type |-> ""]}
    \cup {[kind |-> "found", type |-> t] : t \in LocTypes}

Places ==
    {[latitude |-> 13, longitude |-> 80, address |-> "Chennai, Tamil Nadu, India"],
     [latitude |-> 28, longitude |-> 77, address |-> "New Delhi, Delhi, India"]}

\* geolocator.geocode: it raises, returns None, or a location
GeocodeOutcomes ==
    {[kind |-> k, latitude |-> 0, longitude |-> 0, address |-> "", type |-> ""] :
        k \in {"raise", "none"}}
    \cup {[kind |-> "found", latitude |-> pl.latitude, longitude |-> pl.longitude,
           address |-> pl.address, type |-> t] : pl \in Places, t \in LocTypes}

\* model.predict(forecast_df): one prediction per row
model_predict(df, o) ==
    IF o.raises THEN [ok |-> FALSE, values |-> <<>>]
    ELSE [ok |-> TRUE, values |-> [i \in DOMAIN df.rows |-> o.value]]

\* 'water' in t, for the raw types the geocoder is taken to return
ContainsWater(t) == t = "water"

(***************************************************************************)
(* The handlers.  A handler's result is the response (status, body) and    *)
(* the log of the calls it made.                                           *)
(***************************************************************************)
Result(status, body, log) == [status |-> status, body |-> body, calls |-> log]

\* unauthorized_handler, lines 55-57
unauthorized == Result(401, [error |-> "Not authorized, please log in."], <<>>)

\* login_required that lets every caller through
login_required_open(user, view) == view

\* @login_required: only an authenticated principal reaches the view
login_required(user, view) == IF user = NoPrincipal THEN unauthorized ELSE view

\* the test for a missing model left out
model_is_none_never(mdl) == FALSE

\* if model is None, lines 165 and 205
model_is_none(mdl) == mdl = NoModel

\* clamp left out
clamp_missing(predicted_rainfall) == predicted_rainfall

\* if predicted_rainfall < 0: predicted_rainfall = 0.0, lines 177 and 229
clamp(predicted_rainfall) == IF predicted_rainfall < 0 THEN 0 ELSE predicted_rainfall

InlandMessage == "This location is inland; severe cyclone risk is low."

\* the cyclone check of /predict without its inner try: a raising lookup
\* leaves the check with the exception
reverse_cyclone_check_unguarded(rv) ==
    [ok |-> rv.kind # "raise",
     message |-> IF rv.kind = "found" /\ rv.type # "null" /\ ~ContainsWater(rv.type)
                 THEN "This location is inland; severe cyclone risk is low." ELSE ""]

\* the cyclone check of /predict with the test on 'water' inverted
reverse_cyclone_check_inverted(rv) ==
    [ok |-> TRUE,
     message |-> IF rv.kind = "found" /\ rv.type # "null" /\ ContainsWater(rv.type)
                 THEN "This location is inland; severe cyclone risk is low." ELSE ""]

\* the cyclone check of /predict, lines 181-188: ok = FALSE would be an
\* exception leaving the inner try
reverse_cyclone_check(rv) ==
    [ok |-> TRUE,
     message |-> IF rv.kind = "found" /\ rv.type # "null" /\ ~ContainsWater(rv.type)
                 THEN InlandMessage ELSE ""]

\* the cyclone check of /predict_by_name, lines 233-238
location_cyclone_check(location) ==
    [ok |-> TRUE,
     message |-> IF location.type # "null" /\ ~ContainsWater(location.type)
                 THEN InlandMessage ELSE ""]

\* the not-found test left out
location_not_found_never(location) == FALSE

\* if not location, line 217
location_not_found(location) == location.kind = "none"

\* the view function of /predict, lines 165-199; e holds the outcomes of the calls
predict_view(mdl, user, rq, e) ==
    IF model_is_none(mdl) THEN Result(500, [error |-> "Model is not loaded."], <<>>)
    ELSE IF ~rq.json \/ ~({"latitude", "longitude"} \subseteq DOMAIN rq.data)
    THEN Result(400, [error |-> "Invalid input"], <<>>)
    ELSE
    LET lat == rq.data.latitude
        lon == rq.data.longitude
        c1 == <<Call("requests.get", forecast_params(lat, lon), e.forecast)>>
        c2 == IF e.forecast.kind = "daily" THEN c1 \o <<Call("datetime.now", [tz |-> "local"], e.now)>> ELSE c1
        forecast_df == fetch_forecast_data(lat, lon, e.forecast, e.now)
    IN  IF ~forecast_df.ok
        THEN Result(500, [error |-> "Could not retrieve weather data."], c2)
        ELSE
        LET prediction == model_predict(forecast_df, e.out)
            c3 == c2 \o <<Call("model.predict", forecast_df, e.out)>>
        IN  IF ~prediction.ok \/ prediction.values = <<>>
            THEN Result(500, [error |-> "Prediction error"], c3)
            ELSE
            LET predicted_rainfall == clamp(prediction.values[1])
                alert_info == get_flood_alert(predicted_rainfall)
                check == reverse_cyclone_check(e.reverse)
                c4 == c3 \o <<Call("geolocator.reverse", [latitude |-> lat, longitude |-> lon, language |-> "en"], e.reverse)>>
            IN  IF ~check.ok \/ user = NoPrincipal
                THEN Result(500, [error |-> "Prediction error"], c4)
                ELSE Result(200,
                            [user |-> user, latitude |-> lat, longitude |-> lon,
                             predicted_rainfall_tomorrow_mm |-> Round2(predicted_rainfall),
                             cyclone_risk_message |-> check.message,
                             risk_level |-> alert_info.risk_level,
                             alert_message |-> alert_info.alert_message],
                            c4)

\* /predict, lines 162-199
predict_rainfall(mdl, user, rq, e) == login_required(user, predict_view(mdl, user, rq, e))

\* the view function of /predict_by_name, lines 205-255
predict_by_name_view(mdl, user, rq, e) ==
    IF model_is_none(mdl) THEN Result(500, [error |-> "Model is not loaded."], <<>>)
    ELSE IF ~rq.json \/ "location_name" \notin DOMAIN rq.data
    THEN Result(400, [error |-> "Invalid input. Must provide 'location_name'."], <<>>)
    ELSE
    LET location_name == rq.data.location_name
        location == e.geocode
        c0 == <<Call("geolocator.geocode", [query |-> location_name, country_codes |-> "IN"],
                     location)>>
    IN  IF location.kind = "raise"
        THEN Result(500, [error |-> "An error occurred"], c0)
        ELSE IF location_not_found(location)
        THEN Result(404, [error |-> "Location not found in India."], c0)
        ELSE
        LET lat == location.latitude
            lon == location.longitude
            c1 == c0 \o <<Call("requests.get", forecast_params(lat, lon), e.forecast)>>
            c2 == IF e.forecast.kind = "daily"
                  THEN c1 \o <<Call("datetime.now", [tz |-> "local"], e.now)>> ELSE c1
            forecast_df == fetch_forecast_data(lat, lon, e.forecast, e.now)
        IN  IF ~forecast_df.ok
            THEN Result(500, [error |-> "Could not retrieve weather data."], c2)
            ELSE
            LET prediction == model_predict(forecast_df, e.out)
                c3 == c2 \o <<Call("model.predict", forecast_df, e.out)>>
            IN  IF ~prediction.ok \/ prediction.values = <<>>
                THEN Result(500, [error |-> "An error occurred"], c3)
                ELSE
                LET predicted_rainfall == clamp(prediction.values[1])
                    alert_info == get_flood_alert(predicted_rainfall)
                    check == location_cyclone_check(location)
                IN  IF ~check.ok \/ user = NoPrincipal
                    THEN Result(500, [error |-> "An error occurred"], c3)
                    ELSE Result(200,
                                [user |-> user, searched_location |-> location_name,
                                 found_location |-> location.address,
                                 latitude |-> lat, longitude |-> lon,
                                 predicted_rainfall_tomorrow_mm |-> Round2(predicted_rainfall),
                                 cyclone_risk_message |-> check.message,
                                 risk_level |-> alert_info.risk_level,
                                 alert_message |-> alert_info.alert_message],
                                c3)

\* /predict_by_name, lines 202-255
predict_by_name(mdl, user, rq, e) ==
    login_required(user, predict_by_name_view(mdl, user, rq, e))

(***************************************************************************)
(* The outcomes a handler can meet.  The outcome of a call that the        *)
(* handler does not reach is left at its default, so that every distinct   *)
(* run of the handler is drawn once.                                       *)
(***************************************************************************)
DefaultOutcomes ==
    [geocode |-> [kind |-> "none", latitude |-> 0, longitude |-> 0, address |-> "", type |-> ""],
     forecast |-> [kind |-> "transport_error", drop |-> "none", order |-> "asc", nrows |-> 1],
     now |-> [year |-> FirstYear, yday |-> 59],
     out |-> [raises |-> TRUE, value |-> 0],
     reverse |-> [kind |-> "none", type |-> ""]]

\* S, and every e of S with one outcome replaced by a value of Values that the
\* handler H observes
Vary(S, Values, H(_), With(_, _)) ==
    S \cup {With(q[1], q[2]) : q \in {x \in S \X Values : H(With(x[1], x[2])) # H(x[1])}}

Outcomes(H(_)) ==
    LET S1 == Vary({DefaultOutcomes}, GeocodeOutcomes, H, LAMBDA e, v : [e EXCEPT !.geocode = v])
        S2 == Vary(S1, ForecastOutcomes, H, LAMBDA e, v : [e EXCEPT !.forecast = v])
        S3 == Vary(S2, ClockReadings, H, LAMBDA e, v : [e EXCEPT !.now = v])
        S4 == Vary(S3, PredictOutcomes, H, LAMBDA e, v : [e EXCEPT !.out = v])
    IN  Vary(S4, ReverseOutcomes, H, LAMBDA e, v : [e EXCEPT !.reverse = v])

(***************************************************************************)
(* Requests: POST /predict and POST /predict_by_name.  json is whether     *)
(* request.get_json() yields an object; data is that object.               *)
(***************************************************************************)
PredictBodies ==
    {[json |-> FALSE, data |-> [other |-> 0]], [json |-> TRUE, data |-> [other |-> 0]],
     [json |-> TRUE, data |-> [latitude |-> 13]], [json |-> TRUE, data |-> [longitude |-> 80]]}
    \cup {[json |-> TRUE, data |-> [latitude |-> c[1], longitude |-> c[2]]] : c \in Coordinates}

ByNameBodies ==
    {[json |-> FALSE, data |-> [other |-> 0]], [json |-> TRUE, data |-> [other |-> 0]]}
    \cup {[json |-> TRUE, data |-> [location_name |-> n]] : n \in Names}

Requests ==
    {[endpoint |-> "/predict", user |-> u, json |-> b.json, data |-> b.data] :
        u \in Principals, b \in PredictBodies}
    \cup {[endpoint |-> "/predict_by_name", user |-> u, json |-> b.json, data |-> b.data] :
        u \in Principals, b \in ByNameBodies}

NoRequest == [endpoint |-> "", user |-> NoPrincipal, json |-> FALSE, data |-> [other |-> 0]]

NoResponse == [status |-> 0, body |-> [error |-> ""]]

\* joblib.load and its except clauses, lines 72-80
load_model(outcome) == IF outcome = "ok" THEN Loaded ELSE NoModel

(***************************************************************************)
(* The state machine.                                                      *)
(***************************************************************************)
Init ==
    /\ phase = "start"
    /\ model = NoModel
    /\ req = NoRequest
    /\ calls = <<>>
    /\ resp = NoResponse

\* process start: the model file loads, is missing, or fails to load
LoadModel ==
    /\ phase = "start"
    /\ \E outcome \in {"ok", "FileNotFoundError", "Exception"} : model' = load_model(outcome)
    /\ phase' = "idle"
    /\ UNCHANGED <<req, calls, resp>>

\* a request is dispatched to its view
Arrive ==
    /\ phase = "idle"
    /\ \E rq \in Requests : req' = rq
    /\ phase' = "pending"
    /\ calls' = <<>>
    /\ resp' = NoResponse
    /\ UNCHANGED model

Respond(r) ==
    /\ resp' = [status |-> r.status, body |-> r.body]
    /\ calls' = r.calls
    /\ phase' = "idle"
    /\ UNCHANGED <<model, req>>

HandlePredict ==
    /\ phase = "pending"
    /\ req.endpoint = "/predict"
    /\ \E e \in Outcomes(LAMBDA x : predict_rainfall(model, req.user, req, x)) :
          Respond(predict_rainfall(model, req.user, req, e))

HandlePredictByName ==
    /\ phase = "pending"
    /\ req.endpoint = "/predict_by_name"
    /\ \E e \in Outcomes(LAMBDA x : predict_by_name(model, req.user, req, x)) :
          Respond(predict_by_name(model, req.user, req, e))

Next == LoadModel \/ Arrive \/ HandlePredict \/ HandlePredictByName

Spec == Init /\ [][Next]_vars

(***************************************************************************)
(* Vocabulary of the properties.                                           *)
(***************************************************************************)
\* the request in req has been answered
Handled == phase = "idle" /\ resp.status # 0

\* the request in req has been answered with a prediction result
Succeeded == Handled /\ resp.status = 200

Made(fn) == \E i \in DOMAIN calls : calls[i].fn = fn

\* the first logged call of fn (only used where Made(fn))
TheCall(fn) == calls[CHOOSE i \in DOMAIN calls : calls[i].fn = fn /\ \A j \in 1..(i - 1) : calls[j].fn # fn]

CountCalls(fn) == Cardinality({i \in DOMAIN calls : calls[i].fn = fn})

\* the raw output of the model for the answered request
RawOutput == TheCall("model.predict").result.value

(***************************************************************************)
(* C1: flood tiers.  For a model output p >= 0 the alert of a prediction   *)
(* result embeds r, the nearest hundredth to p, which is also the reported *)
(* rainfall, and tier and wording are those of r: Low (first wording)      *)
(* below 15.6, Low (second wording) up to 64.4, Moderate up to 115.5, High *)
(* up to 204.4, Severe above.                                              *)
(***************************************************************************)
FloodLadder(r) ==
    IF r < 1560 THEN <<"Low", "No significant flood risk">>
    ELSE IF r <= 6440 THEN <<"Low", "Low flood risk">>
    ELSE IF r <= 11550 THEN <<"Moderate", "Flood Alert">>
    ELSE IF r <= 20440 THEN <<"High", "Flood Warning">>
    ELSE <<"Severe", "DANGER">>

C1_FloodTiers ==
    (Succeeded /\ RawOutput >= 0) =>
        LET p == RawOutput
            r == resp.body.alert_message.mm
        IN  /\ 10 * r - p <= 5 /\ p - 10 * r <= 5
            /\ resp.body.predicted_rainfall_tomorrow_mm = r
            /\ <<resp.body.risk_level, resp.body.alert_message.text>> = FloodLadder(r)
            /\ (r = 1560 => resp.body.alert_message.text = "Low flood risk")
            /\ (r = 6440 => resp.body.risk_level = "Low")
            /\ (r = 6441 => resp.body.risk_level = "Moderate")
            /\ (r = 11550 => resp.body.risk_level = "Moderate")
            /\ (r = 20440 => resp.body.risk_level = "High")
            /\ (r = 20441 => resp.body.risk_level = "Severe")

C1_Witness ==
    /\ Succeeded
    /\ RawOutput = 64405
    /\ resp.body.alert_message.mm = 6440
    /\ resp.body.risk_level = "Low"

(***************************************************************************)
(* C2: cyclone assessment.  As stated: every prediction result carries a   *)
(* cyclone risk tier decided by the forecast maximum wind speed w: Low     *)
(* below 31 km/h, Moderate below 50, High below 61, Severe below 88,       *)
(* Critical from 88.                                                       *)
(***************************************************************************)
CycloneLadder(w) ==
    IF w < 31 THEN "Low"
    ELSE IF w < 50 THEN "Moderate"
    ELSE IF w < 61 THEN "High"
    ELSE IF w < 88 THEN "Severe"
    ELSE "Critical"

CheckedLocation ==
    IF req.endpoint = "/predict" THEN TheCall("geolocator.reverse").result
    ELSE TheCall("geolocator.geocode").result

C3_ClampedRainfall ==
    Succeeded =>
        /\ resp.body.predicted_rainfall_tomorrow_mm >= 0
        /\ resp.body.alert_message.mm >= 0
        /\ RawOutput < 0 =>
              /\ resp.body.predicted_rainfall_tomorrow_mm = 0
              /\ resp.body.risk_level = "Low"
              /\ resp.body.alert_message = [text |-> "No significant flood risk", mm |-> 0]

C3_Witness ==
    /\ Succeeded
    /\ req.endpoint = "/predict_by_name"
    /\ RawOutput = -6
    /\ resp.body.predicted_rainfall_tomorrow_mm = 0

C5_GeocodeFailures ==
    (Handled /\ req.endpoint = "/predict_by_name" /\ Made("geolocator.geocode")) =>
        LET location == TheCall("geolocator.geocode").result
        IN  /\ location.kind = "none" =>
                  /\ resp.status = 404
                  /\ DOMAIN resp.body = {"error"}
                  /\ ~Made("requests.get")
                  /\ ~Made("model.predict")
            /\ location.kind = "raise" =>
                  /\ resp.status >= 500
                  /\ resp.status # 404
                  /\ DOMAIN resp.body = {"error"}

C5_Witness ==
    /\ Handled
    /\ req.endpoint = "/predict_by_name"
    /\ Made("geolocator.geocode")
    /\ TheCall("geolocator.geocode").result.kind = "none"
    /\ resp.status = 404

RequiredKeys == {"time"} \cup RequestedVariables

AcquisitionFailed(f) ==
    \/ f.kind # "daily"
    \/ f.nrows = 0
    \/ f.drop \in RequiredKeys

C7_NoInferenceAfterFailedAcquisition ==
    (Handled /\ Made("requests.get") /\ AcquisitionFailed(TheCall("requests.get").result)) =>
        /\ resp.status >= 500
        /\ DOMAIN resp.body = {"error"}
        /\ ~Made("model.predict")

(***************************************************************************)
(* C8: whenever the model is invoked, the columns of its argument are the  *)
(* ten features in the order the model was trained with, the five forecast *)
(* values and the coordinates are the acquired and the resolved values,    *)
(* and month, day of year and year are those of one clock reading plus one *)
(* day.                                                                    *)
(***************************************************************************)
\* the coordinates the answered request resolves to
ResolvedCoordinates ==
    IF req.endpoint = "/predict" THEN <<req.data.latitude, req.data.longitude>>
    ELSE <<TheCall("geolocator.geocode").result.latitude,
           TheCall("geolocator.geocode").result.longitude>>

C8_FeatureVector ==
    Made("model.predict") =>
        LET df == TheCall("model.predict").arg
            tomorrow == PlusOneDay(TheCall("datetime.now").result)
        IN  /\ CountCalls("datetime.now") = 1
            /\ df.cols = <<"temperature_2m_max", "temperature_2m_min",
                           "apparent_temperature_mean", "sunshine_duration",
                           "precipitation_hours", "latitude", "longitude",
                           "month", "day_of_year", "year">>
            /\ df.cols = training_columns
            /\ \A i \in DOMAIN df.rows :
                  /\ DOMAIN df.rows[i] = SeqToSet(df.cols)
                  /\ \A k \in {df.cols[j] : j \in 1..5} : df.rows[i][k] = WeatherValue(k, i)
                  /\ df.rows[i].latitude = ResolvedCoordinates[1]
                  /\ df.rows[i].longitude = ResolvedCoordinates[2]
                  /\ df.rows[i].month = MonthOf(tomorrow)
                  /\ df.rows[i].day_of_year = DayOfYear(tomorrow)
                  /\ df.rows[i].year = YearOf(tomorrow)

C8_Witness ==
    /\ Succeeded
    /\ TheCall("requests.get").result.order = "desc"
    /\ TheCall("datetime.now").result.yday = DaysInYear(TheCall("datetime.now").result.year)
    /\ TheCall("model.predict").arg.rows[1].year = TheCall("datetime.now").result.year + 1
    /\ TheCall("model.predict").arg.rows[1].day_of_year = 1
    /\ TheCall("model.predict").arg.rows[1].month = 1

WithLookupFound ==
    [DefaultOutcomes EXCEPT
        !.forecast = TheCall("requests.get").result,
        !.now = TheCall("datetime.now").result,
        !.out = TheCall("model.predict").result,
        !.reverse = [kind |-> "found", type |-> "city"]]

C10_LookupFailureSwallowed ==
    (/\ Handled
     /\ req.endpoint = "/predict"
     /\ Made("geolocator.reverse")
     /\ TheCall("geolocator.reverse").result.kind \in {"raise", "none"}) =>
        LET found == predict_rainfall(model, req.user, req, WithLookupFound)
        IN  /\ resp.status = 200
            /\ found.status = 200
            /\ resp.body.cyclone_risk_message = ""
            /\ found.body.cyclone_risk_message # ""
            /\ resp.body.predicted_rainfall_tomorrow_mm = found.body.predicted_rainfall_tomorrow_mm
            /\ resp.body.risk_level = found.body.risk_level
            /\ resp.body.alert_message = found.body.alert_message
            /\ DOMAIN resp.body = DOMAIN found.body

C10_Witness ==
    /\ Succeeded
    /\ req.endpoint = "/predict"
    /\ TheCall("geolocator.reverse").result.kind = "raise"
    /\ resp.body.risk_level = "High"
    /\ resp.body.cyclone_risk_message = ""

(***************************************************************************)
(* C11: on /predict, with the model loaded, a request whose body is        *)
(* missing or malformed (no latitude or no longitude), or whose latitude   *)
(* is outside [-90, 90] or whose longitude is outside [-180, 180], is      *)
(* answered with a 4xx error and neither the forecast is fetched nor the   *)
(* model invoked.                                                          *)
(***************************************************************************)
BodyMalformed(rq) == ~rq.json \/ ~({"latitude", "longitude"} \subseteq DOMAIN rq.data)

OutOfRange(rq) ==
    /\ ~BodyMalformed(rq)
    /\ \/ rq.data.latitude \notin -90..90
       \/ rq.data.longitude \notin -180..180

C11_InvalidInputRejected ==
    (/\ Handled
     /\ req.endpoint = "/predict"
     /\ model = Loaded
     /\ BodyMalformed(req) \/ OutOfRange(req)) =>
        /\ resp.status \in 400..499
        /\ DOMAIN resp.body = {"error"}
        /\ ~Made("requests.get")
        /\ ~Made("model.predict")

\* the part of C11 about a missing or malformed body alone
C11_MalformedBodyRejected ==
    (/\ Handled
     /\ req.endpoint = "/predict"
     /\ model = Loaded
     /\ BodyMalformed(req)) =>
        /\ resp.status \in 400..499
        /\ DOMAIN resp.body = {"error"}
        /\ calls = <<>>

====
